---- MODULE Spec2Model ----
(***************************************************************************)
(* git-cai: the edit-then-commit protocol (core/gitutils.py) and the       *)
(* squash orchestrator (core/squash.py).                                   *)
(*                                                                         *)
(* File contents and messages are byte strings over a two-letter alphabet  *)
(* (a blank and a letter), bounded in length.  The editor, git and the     *)
(* provider are external processes: each of their outcomes is a choice.    *)
(***************************************************************************)
EXTENDS Integers, Sequences, FiniteSets, TLC

\* ---------------------------------------------------------------- bounds
MaxLen == 2

MaxCommits == 2

\* ------------------------------------------------------- bytes and text
Chars == {" ", "a"}

Contents == UNION {[1..n -> Chars] : n \in 0..MaxLen}

\* a message that the utf-8 codec cannot encode (a lone surrogate)
Unencodable == <<"\\ud800">>

IsBlank(c) == c = " "

RECURSIVE LStrip(_)
LStrip(s) ==
    IF s = <<>> THEN <<>>
    ELSE IF IsBlank(Head(s)) THEN LStrip(Tail(s)) ELSE s

RECURSIVE RStrip(_)
RStrip(s) ==
    IF s = <<>> THEN <<>>
    ELSE IF IsBlank(s[Len(s)]) THEN RStrip(SubSeq(s, 1, Len(s) - 1)) ELSE s

\* str.strip()
Strip(s) == RStrip(LStrip(s))

\* what a provider call can return: a stripped reply, possibly unencodable
Replies == {c \in Contents : Strip(c) = c} \cup {Unencodable}

CharCode(c) == IF c = " " THEN 1 ELSE 2

RECURSIVE DigestFrom(_, _)
DigestFrom(h, s) ==
    IF s = <<>> THEN h
    ELSE DigestFrom(h * (Cardinality(Chars) + 1) + CharCode(Head(s)), Tail(s))

\* a digest that forgets the bytes and keeps their number
sha256_length_only(bytes) == Len(bytes)

\* sha256_of_file: the digest of the file's bytes, fed chunk after chunk;
\* collision-free on Contents (bijective numeration of the byte string)
sha256_of_file(bytes) == DigestFrom(0, bytes)

\* ------------------------------------------------------------ the editor
\* editor command lines the environment can hold
EditorCmds == {"vi", "nosuch", "FOO=1 vi", "vi '", " "}

\* shlex.split: the words of the command line, or ValueError (open quote);
\* a blank command line has no words
shlex_split(editor) ==
    CASE editor = "vi"       -> [ok |-> TRUE,  parts |-> <<"vi">>]
      [] editor = " "        -> [ok |-> TRUE,  parts |-> <<>>]
      [] editor = "nosuch"   -> [ok |-> TRUE,  parts |-> <<"nosuch">>]
      [] editor = "FOO=1 vi" -> [ok |-> TRUE,  parts |-> <<"FOO=1", "vi">>]
      [] OTHER               -> [ok |-> FALSE, parts |-> <<>>]

PathExecutables == {"vi"}

\* shutil.which(parts[0]) is truthy
which(cmd) == cmd \in PathExecutables

\* `git var GIT_EDITOR`: the command fails, or prints a line
GitVarFails == "<CalledProcessError>"

GitVarOutputs == {GitVarFails, "\n", "vi\n"} \cup (EditorCmds \ {"vi", " "})

\* result.stdout.strip()
strip_output(out) ==
    CASE out = "\n"   -> ""
      [] out = "vi\n" -> "vi"
      [] OTHER        -> out

\* os.environ.get(env): "" stands for an unset (or empty) variable
EnvValues == {"", "vi", "nosuch"}

\* where get_git_editor looks, in the state the process was started in
EditorSources ==
    [git_var : GitVarOutputs, GIT_EDITOR : EnvValues, VISUAL : EnvValues,
     EDITOR : EnvValues \cup {" "}]

\* the sources in which git alone names the editor
GitVarSources ==
    [git_var : EditorCmds \ {" "}, GIT_EDITOR : {""}, VISUAL : {""},
     EDITOR : {""}]
    \cup [git_var : {GitVarFails}, GIT_EDITOR : {""}, VISUAL : {""},
          EDITOR : {" "}]

\* shutil.which("vi") or shutil.which("nano") or "vi"
system_editor ==
    IF which("vi") THEN "vi" ELSE IF which("nano") THEN "nano" ELSE "vi"

\* a lookup that asks the environment before git
get_git_editor_env_first(src) ==
    IF src.GIT_EDITOR # "" THEN src.GIT_EDITOR
    ELSE IF src.VISUAL # "" THEN src.VISUAL
    ELSE IF src.EDITOR # "" THEN src.EDITOR
    ELSE IF src.git_var # GitVarFails /\ strip_output(src.git_var) # ""
    THEN strip_output(src.git_var)
    ELSE system_editor

\* get_git_editor: git's answer when the command succeeds with a non-blank
\* line, else the first set variable of GIT_EDITOR, VISUAL, EDITOR, else
\* the system editor
get_git_editor(src) ==
    IF src.git_var # GitVarFails /\ strip_output(src.git_var) # ""
    THEN strip_output(src.git_var)
    ELSE IF src.GIT_EDITOR # "" THEN src.GIT_EDITOR
    ELSE IF src.VISUAL # "" THEN src.VISUAL
    ELSE IF src.EDITOR # "" THEN src.EDITOR
    ELSE system_editor

\* exit statuses of a child process: success, failure, killed by a signal
ExitCodes == {0, 1, -9}

NoHash == -1

NoCode == -100

NoFile == [exists |-> FALSE, content |-> <<>>]

\* what an editor process can do to the file it was given, and its status
EditorEffects ==
    [write : {TRUE}, unlink : {FALSE}, content : Contents, rc : ExitCodes]
    \cup [write : {FALSE}, unlink : BOOLEAN, content : {<<>>}, rc : ExitCodes]

\* `sh -c '<editor> "<file>"'`: an unknown command is status 127 and the
\* file is untouched; a command line the shell understands runs the editor
ShellEffects(editor) ==
    IF editor = "nosuch"
    THEN {[write |-> FALSE, unlink |-> FALSE, content |-> <<>>, rc |-> 127]}
    ELSE EditorEffects

FileAfter(file, eff) ==
    IF eff.write THEN [exists |-> TRUE, content |-> eff.content]
    ELSE IF eff.unlink THEN NoFile
    ELSE file

\* ------------------------------------------------------------------ git
\* `git commit`: refuses an empty message and an empty index; otherwise it
\* succeeds unless a hook or a lock makes it fail
GitCommitCodes(message, indexStaged) ==
    IF Strip(message) = <<>> \/ ~indexStaged THEN {1} ELSE {0, 1}

Histories == UNION {[1..n -> {<<"a">>}] : n \in 0..MaxCommits}

RECURSIVE Join(_)
Join(msgs) ==
    IF msgs = <<>> THEN <<>>
    ELSE IF Len(msgs) = 1 THEN Head(msgs)
    ELSE Head(msgs) \o <<" ">> \o Join(Tail(msgs))

RECURSIVE Count(_, _)
Count(s, e) ==
    IF s = <<>> THEN 0
    ELSE (IF Head(s) = e THEN 1 ELSE 0) + Count(Tail(s), e)


\* `x or 1` on an exit status
or_1(code) == IF code # 0 THEN code ELSE 1

\* ---------------------------------------------------------------- state
VARIABLES
    entry,            \* the function the run entered: "commit" or "squash"
    pc,               \* position in the running function
    gitEditor,        \* the editor command line git and the environment give
    editor_sources,   \* what `git var` prints and the editor variables hold
    commits,          \* messages of the commits reachable from HEAD, oldest first
    staged,           \* the index differs from HEAD
    unstaged,         \* the working tree differs from the index
    upstream,         \* the branch tracks a remote branch
    trace,            \* external effects in the order they happened
    commit_message,   \* commit_with_edit_template: its argument
    tf,               \* commit_with_edit_template: the temp file tf_name
    original_hash,    \* commit_with_edit_template: hash before editing
    rc,               \* commit_with_edit_template: the editor's status
    new_hash,         \* commit_with_edit_template: hash after editing
    git_read,         \* commit_with_edit_template: what `git commit -F` was given
    pending,          \* commit_with_edit_template: how the body is leaving
    result,           \* squash_branch: value commit_with_edit_template returned
    staged_out,       \* squash_branch: `staged` is non-empty
    unstaged_out,     \* squash_branch: `unstaged` is non-empty
    merge_base,       \* squash_branch: number of commits up to and including the base
    base_lookup,      \* _get_branch_base: what its git commands answered
    commit_log,       \* squash_branch: the log text
    summary_message,  \* squash_branch: the provider's summary
    rv,               \* squash_branch: the review temp file tf_name
    sq_original_hash, \* squash_branch: original_hash
    sq_rc,            \* squash_branch: rc
    sq_new_hash,      \* squash_branch: new_hash
    final_message,    \* squash_branch: final_message
    commits_at_review, \* HEAD's history when the review file was written
    default_model,    \* CommitMessageGenerator.default_model / config["default"]
    token,            \* the API token load_token returned
    llm_pc,           \* CommitMessageGenerator: position in the running call
    _ollama_proc,     \* CommitMessageGenerator._ollama_proc: the Popen handle's process
    _ollama_started_by_us, \* CommitMessageGenerator._ollama_started_by_us
    server_up,        \* an Ollama server this instance did not spawn answers
    loopback,         \* the hostname of the Ollama base URL is a loopback name
    installed,        \* shutil.which("ollama") finds the binary
    events,           \* what the generator did since the last call began
    calls,            \* generate / summarize_commit_history calls made so far
    spawns,           \* `ollama serve` processes this instance has spawned
    response,         \* how the HTTP request of the running call was answered
    v_fn,             \* _validate_llm_call: how the wrapped fn behaves
    v_out,            \* _validate_llm_call: how the call left
    repo_file,        \* load_config: the repository's cai_config.yml
    home_file,        \* load_config: ~/.config/cai/cai_config.yml
    loaded,           \* load_config: how the call left
    p_config,         \* prompt building: the configuration mapping
    user_file,        \* load_prompt_file: the file the config key points to
    bundled_file,     \* load_prompt_file: the packaged default prompt file
    prompt_out,       \* prompt building: the prompt built
    m_flags,          \* cli callback: the options typer parsed
    m_pc,             \* cli callback: position
    m_mode,           \* cli callback: what resolve_mode returned
    m_exit,           \* cli callback: code of the typer.Exit raised
    m_handler         \* main.run: the branch that ran

repoVars == <<gitEditor, commits, staged, unstaged, upstream, trace>>

ceVars == <<commit_message, tf, original_hash, rc, new_hash, git_read, pending>>

sqVars == <<result, staged_out, unstaged_out, merge_base, base_lookup, commit_log,
            summary_message, rv, sq_original_hash, sq_rc, sq_new_hash,
            final_message, commits_at_review>>

genVars == <<default_model, token>>

llmVars == <<llm_pc, _ollama_proc, _ollama_started_by_us, server_up, loopback,
             installed, events, calls, spawns, response>>

valVars == <<v_fn, v_out>>

cfgVars == <<repo_file, home_file, loaded>>

promptVars == <<p_config, user_file, bundled_file, prompt_out>>

envVars == <<editor_sources>>

modeVars == <<m_flags, m_pc, m_mode, m_exit, m_handler>>

auxVars == <<llmVars, valVars, cfgVars, promptVars, envVars, modeVars>>

flowVars == <<entry, pc, repoVars, ceVars, sqVars>>

vars == <<flowVars, genVars, auxVars>>

NoPending == [kind |-> "none", val |-> NoCode]

NoLookup == [originHead |-> FALSE, forkPoint |-> -1]

NotRead == [called |-> FALSE, file |-> NoFile, code |-> NoCode]

\* load_token returned None
NoToken == "<None>"

\* what load_token can return: None, an empty entry, a key
Tokens == {NoToken, "", "key"}

\* the names model_dispatch has an entry for
Providers == {"openai", "gemini", "anthropic", "groq", "xai", "mistral",
              "deepseek", "ollama"}

\* values of `default`: the providers and a name no function exists for
ModelNames == Providers \cup {"cohere"}

NoResponse == "<none>"

\* no run of main.run is in progress
FlowIdle ==
    /\ entry = "none"
    /\ pc = "idle"
    /\ gitEditor = "vi"
    /\ editor_sources = [git_var |-> "vi", GIT_EDITOR |-> "", VISUAL |-> "",
                         EDITOR |-> ""]
    /\ commits = <<>>
    /\ staged = FALSE
    /\ unstaged = FALSE
    /\ upstream = FALSE
    /\ trace = <<>>
    /\ commit_message = <<>>
    /\ tf = NoFile
    /\ original_hash = NoHash
    /\ rc = NoCode
    /\ new_hash = NoHash
    /\ git_read = NotRead
    /\ pending = NoPending
    /\ result = NoCode
    /\ staged_out = FALSE
    /\ unstaged_out = FALSE
    /\ merge_base = -1
    /\ base_lookup = NoLookup
    /\ commit_log = <<>>
    /\ summary_message = <<>>
    /\ rv = NoFile
    /\ sq_original_hash = NoHash
    /\ sq_rc = NoCode
    /\ sq_new_hash = NoHash
    /\ final_message = <<>>
    /\ commits_at_review = <<>>

\* no configuration or token has been loaded
GenIdle ==
    /\ default_model = "unset"
    /\ token = NoToken

\* CommitMessageGenerator.__init__: no process handle, nothing started
LlmIdle ==
    /\ llm_pc = "idle"
    /\ _ollama_proc = "none"
    /\ _ollama_started_by_us = FALSE
    /\ server_up = FALSE
    /\ loopback = TRUE
    /\ installed = TRUE
    /\ events = <<>>
    /\ calls = 0
    /\ spawns = 0
    /\ response = NoResponse

\* _validate_llm_call has not been entered
ValIdle ==
    /\ v_fn = [raises |-> FALSE, type |-> "", auth |-> FALSE, text |-> <<>>]
    /\ v_out = [kind |-> "none", type |-> "", text |-> <<>>, called |-> FALSE]

\* load_config has not been entered
CfgIdle ==
    /\ repo_file = "none"
    /\ home_file = "none"
    /\ loaded = [status |-> "none"]

NoMode == "<none>"

NoExit == -1

\* the command line is not being read
ModesIdle ==
    /\ m_flags = "none"
    /\ m_pc = "idle"
    /\ m_mode = NoMode
    /\ m_exit = NoExit
    /\ m_handler = "none"

\* no prompt is being built
PromptIdle ==
    /\ p_config = "none"
    /\ user_file = NoFile
    /\ bundled_file = NoFile
    /\ prompt_out = [status |-> "none"]

Init ==
    /\ ModesIdle
    /\ GenIdle
    /\ LlmIdle
    /\ ValIdle
    /\ CfgIdle
    /\ PromptIdle
    /\ entry \in {"commit", "squash"}
    /\ pc = IF entry = "commit" THEN "ce_write" ELSE "sq_start"
    /\ editor_sources \in
          (IF entry = "commit" THEN EditorSources ELSE GitVarSources)
    /\ gitEditor = get_git_editor(editor_sources)
    /\ commits \in Histories
    /\ staged \in BOOLEAN
    /\ unstaged \in BOOLEAN
    /\ upstream \in BOOLEAN
    /\ trace = <<>>
    /\ commit_message \in IF entry = "commit" THEN Replies ELSE {<<>>}
    /\ tf = NoFile
    /\ original_hash = NoHash
    /\ rc = NoCode
    /\ new_hash = NoHash
    /\ git_read = NotRead
    /\ pending = NoPending
    /\ result = NoCode
    /\ staged_out = FALSE
    /\ unstaged_out = FALSE
    /\ merge_base = -1
    /\ base_lookup = NoLookup
    /\ commit_log = <<>>
    /\ summary_message = <<>>
    /\ rv = NoFile
    /\ sq_original_hash = NoHash
    /\ sq_rc = NoCode
    /\ sq_new_hash = NoHash
    /\ final_message = <<>>
    /\ commits_at_review = <<>>

\* ------------------------------------------- commit_with_edit_template
\* the body leaves through the finally clause
Leave(kind, val) ==
    /\ pending' = [kind |-> kind, val |-> val]
    /\ pc' = "ce_finally"

\* with NamedTemporaryFile("w", delete=False): tf.write(commit_message).
\* The file exists from the moment it is opened; a message the codec
\* rejects makes write() raise before the try statement is entered.
CE_WriteTemp ==
    /\ pc = "ce_write"
    /\ IF commit_message = Unencodable
       THEN /\ tf' = [exists |-> TRUE, content |-> <<>>]
            /\ pending' = [kind |-> "raise", val |-> NoCode]
            /\ pc' = "ce_exit"
       ELSE /\ tf' = [exists |-> TRUE, content |-> commit_message]
            /\ pending' = pending
            /\ pc' = "ce_hash"
    /\ UNCHANGED <<entry, repoVars, sqVars, commit_message, original_hash,
                   rc, new_hash, git_read>>
    /\ UNCHANGED <<genVars, auxVars>>

\* original_hash = sha256_of_file(tf_name)
CE_HashOriginal ==
    /\ pc = "ce_hash"
    /\ original_hash' = sha256_of_file(tf.content)
    /\ pc' = "ce_editor"
    /\ UNCHANGED <<entry, repoVars, sqVars, commit_message, tf, rc, new_hash,
                   git_read, pending>>
    /\ UNCHANGED <<genVars, auxVars>>

\* the editor is missing: fail before launching anything
CE_ResolveEditor ==
    /\ pc = "ce_editor"
    /\ LET sp == shlex_split(gitEditor) IN
       IF ~sp.ok \/ sp.parts = <<>> THEN Leave("raise", NoCode)
       ELSE IF ~which(sp.parts[1]) THEN Leave("return", 1)
       ELSE pc' = "ce_run" /\ pending' = pending
    /\ UNCHANGED <<entry, repoVars, sqVars, commit_message, tf, original_hash,
                   rc, new_hash, git_read>>
    /\ UNCHANGED <<genVars, auxVars>>

\* rc = subprocess.run(parts + [tf_name]).returncode; non-zero aborts
CE_RunEditor ==
    /\ pc = "ce_run"
    /\ \E eff \in EditorEffects :
        /\ tf' = FileAfter(tf, eff)
        /\ rc' = eff.rc
        /\ trace' = Append(trace, "editor")
        /\ IF eff.rc # 0 THEN Leave("return", or_1(eff.rc))
           ELSE pc' = "ce_rehash" /\ pending' = pending
    /\ UNCHANGED <<entry, gitEditor, commits, staged, unstaged, upstream, sqVars,
                   commit_message, original_hash, new_hash, git_read>>
    /\ UNCHANGED <<genVars, auxVars>>

\* a check that takes every return of the editor for a save
file_changed_always(h0, h1) == TRUE

\* the file counts as saved when its hash moved
file_changed(h0, h1) == h1 # h0

\* new_hash = sha256_of_file(tf_name); equal hashes abort
CE_HashNew ==
    /\ pc = "ce_rehash"
    /\ IF ~tf.exists
       THEN new_hash' = new_hash /\ Leave("raise", NoCode)
       ELSE /\ new_hash' = sha256_of_file(tf.content)
            /\ IF file_changed(original_hash, new_hash')
               THEN pc' = "ce_commit" /\ pending' = pending
               ELSE Leave("return", 1)
    /\ UNCHANGED <<entry, repoVars, sqVars, commit_message, tf, original_hash,
                   rc, git_read>>
    /\ UNCHANGED <<genVars, auxVars>>

\* value returned after `git commit -F` ended with status code
commit_return(code) == IF code = 0 THEN 0 ELSE or_1(code)

\* subprocess.run(["git", "commit", "-F", tf_name], check=True)
CE_GitCommit ==
    /\ pc = "ce_commit"
    /\ \E code \in GitCommitCodes(tf.content, staged) :
        /\ git_read' = [called |-> TRUE, file |-> tf, code |-> code]
        /\ IF code = 0
           THEN /\ commits' = Append(commits, tf.content)
                /\ staged' = FALSE
                /\ trace' = Append(trace, "commit_F")
           ELSE /\ UNCHANGED <<commits, staged>>
                /\ trace' = Append(trace, "commit_F_failed")
        /\ Leave("return", commit_return(code))
    /\ UNCHANGED <<entry, gitEditor, unstaged, upstream, sqVars, commit_message, tf,
                   original_hash, rc, new_hash>>
    /\ UNCHANGED <<genVars, auxVars>>

\* finally: os.remove(tf_name); an OSError (file already gone) is logged
CE_Finally ==
    /\ pc = "ce_finally"
    /\ tf' = NoFile
    /\ pc' = "ce_exit"
    /\ UNCHANGED <<entry, repoVars, sqVars, commit_message, original_hash, rc,
                   new_hash, git_read, pending>>
    /\ UNCHANGED <<genVars, auxVars>>

\* the call ends: the value goes to the caller, an exception propagates
CE_Return ==
    /\ pc = "ce_exit"
    /\ IF pending.kind = "return"
       THEN /\ result' = pending.val
            /\ pc' = IF entry = "commit" THEN "done" ELSE "sq_committed"
       ELSE /\ result' = result
            /\ pc' = "raised"
    /\ UNCHANGED <<entry, repoVars, ceVars, staged_out, unstaged_out,
                   merge_base, base_lookup, commit_log, summary_message, rv,
                   sq_original_hash, sq_rc, sq_new_hash, final_message,
                   commits_at_review>>
    /\ UNCHANGED <<genVars, auxVars>>

\* ------------------------------------------------------- squash_branch
sqRest == <<entry, gitEditor, unstaged, upstream, ceVars>>

\* repo_root = find_git_root(); outside a repository: log and return
SQ_FindRoot ==
    /\ pc = "sq_start"
    /\ \E inRepo \in BOOLEAN : pc' = IF inRepo THEN "sq_tree" ELSE "done"
    /\ UNCHANGED <<entry, repoVars, ceVars, sqVars>>
    /\ UNCHANGED <<genVars, auxVars>>

\* staged = `git diff --cached --name-only`; unstaged = `git diff --name-only`
SQ_ReadTree ==
    /\ pc = "sq_tree"
    /\ staged_out' = staged
    /\ unstaged_out' = unstaged
    /\ pc' = "sq_settings"
    /\ UNCHANGED <<entry, repoVars, ceVars, result, merge_base, base_lookup, commit_log,
                   summary_message, rv, sq_original_hash, sq_rc, sq_new_hash,
                   final_message, commits_at_review>>
    /\ UNCHANGED <<genVars, auxVars>>

\* `if not token`: None and the empty string are both falsy
token_missing(tok) == tok \in {NoToken, ""}

\* config = load_config(); default_model = ...; token = load_token(...);
\* if not token: sys.exit(1)
SQ_LoadSettings ==
    /\ pc = "sq_settings"
    /\ \E configOk \in BOOLEAN, model \in ModelNames, tok \in Tokens :
        IF ~configOk
        THEN /\ pc' = "raised"
             /\ UNCHANGED genVars
        ELSE /\ default_model' = model
             /\ token' = tok
             /\ pc' = IF token_missing(tok) THEN "exit" ELSE "sq_worktree"
    /\ UNCHANGED <<entry, repoVars, ceVars, sqVars>>
    /\ UNCHANGED auxVars

\* a guard without the refusal
working_tree_branch_no_refusal(stagedNames, unstagedNames) ==
    IF stagedNames THEN "commit_first" ELSE "proceed"

\* a guard that leaves the staged changes alone
working_tree_branch_never_commits(stagedNames, unstagedNames) ==
    IF unstagedNames /\ ~stagedNames THEN "refuse" ELSE "proceed"

\* the branch taken on the two listings: "commit_first", "refuse", "proceed"
working_tree_branch(stagedNames, unstagedNames) ==
    IF stagedNames THEN "commit_first"
    ELSE IF unstagedNames THEN "refuse"
    ELSE "proceed"

\* 1) Working tree handling; the diff is blank when .caiignore excludes
\* every staged file
SQ_WorkingTree ==
    /\ pc = "sq_worktree"
    /\ LET b == working_tree_branch(staged_out, unstaged_out) IN
       CASE b = "commit_first" ->
              \E diffBlank \in BOOLEAN :
                  pc' = IF diffBlank THEN "done" ELSE "sq_generate"
         [] b = "refuse" -> pc' = "done"
         [] OTHER -> pc' = "sq_base"
    /\ UNCHANGED <<entry, repoVars, ceVars, sqVars>>
    /\ UNCHANGED <<genVars, auxVars>>

\* msg = generator.generate(diff); commit_with_edit_template(msg)
SQ_Generate ==
    /\ pc = "sq_generate"
    /\ trace' = Append(trace, "generate")
    /\ \/ pc' = "raised" /\ UNCHANGED commit_message
       \/ \E msg \in Replies : commit_message' = msg /\ pc' = "ce_write"
    /\ UNCHANGED <<entry, gitEditor, commits, staged, unstaged, upstream, sqVars, tf,
                   original_hash, rc, new_hash, git_read, pending>>
    /\ UNCHANGED <<genVars, auxVars>>

\* a caller that ignores the returned value
continue_after_commit_always(code) == TRUE

\* the squash goes on after the commit of the staged changes
continue_after_commit(code) == code = 0

\* if result != 0: squash cancelled
SQ_AfterCommit ==
    /\ pc = "sq_committed"
    /\ pc' = IF continue_after_commit(result) THEN "sq_base" ELSE "done"
    /\ UNCHANGED <<entry, repoVars, ceVars, sqVars>>
    /\ UNCHANGED <<genVars, auxVars>>

\* a lookup that takes HEAD when the fork point is not found
_get_branch_base_head(originHead, forkPoint, history) ==
    IF originHead /\ forkPoint > 0 THEN [ok |-> TRUE, base |-> forkPoint]
    ELSE IF Len(history) >= 1 THEN [ok |-> TRUE, base |-> Len(history)]
    ELSE [ok |-> FALSE, base |-> -1]

\* _get_branch_base: the fork point with the default remote branch, else
\* the root commit; forkPoint = 0 stands for a failing merge-base
_get_branch_base(originHead, forkPoint, history) ==
    IF originHead /\ forkPoint > 0 THEN [ok |-> TRUE, base |-> forkPoint]
    ELSE IF Len(history) >= 1 THEN [ok |-> TRUE, base |-> 1]
    ELSE [ok |-> FALSE, base |-> -1]

\* 2) merge_base = _get_branch_base()
SQ_GetBranchBase ==
    /\ pc = "sq_base"
    /\ \E originHead \in BOOLEAN, forkPoint \in 0..Len(commits) :
        LET b == _get_branch_base(originHead, forkPoint, commits) IN
        /\ base_lookup' = [originHead |-> originHead, forkPoint |-> forkPoint]
        /\ IF b.ok THEN merge_base' = b.base /\ pc' = "sq_log"
           ELSE merge_base' = merge_base /\ pc' = "raised"
    /\ UNCHANGED <<entry, repoVars, ceVars, result, staged_out, unstaged_out,
                   commit_log, summary_message, rv, sq_original_hash, sq_rc,
                   sq_new_hash, final_message, commits_at_review>>
    /\ UNCHANGED <<genVars, auxVars>>

\* `git log <base>..HEAD --pretty=format:%B`, stripped
git_log(history, base) == Strip(Join(SubSeq(history, base + 1, Len(history))))

\* a test that never finds the log empty
nothing_to_squash_never(log) == FALSE

\* if not commit_log
nothing_to_squash(log) == log = <<>>

\* 3) an empty log: nothing to squash
SQ_ReadLog ==
    /\ pc = "sq_log"
    /\ commit_log' = git_log(commits, merge_base)
    /\ pc' = IF nothing_to_squash(commit_log') THEN "done" ELSE "sq_summarize"
    /\ UNCHANGED <<entry, repoVars, ceVars, result, staged_out, unstaged_out,
                   merge_base, base_lookup, summary_message, rv, sq_original_hash, sq_rc,
                   sq_new_hash, final_message, commits_at_review>>
    /\ UNCHANGED <<genVars, auxVars>>

\* summary_message = generator.summarize_commit_history(commit_log)
SQ_Summarize ==
    /\ pc = "sq_summarize"
    /\ trace' = Append(trace, "summarize")
    /\ \/ pc' = "raised" /\ UNCHANGED summary_message
       \/ \E msg \in Replies : summary_message' = msg /\ pc' = "sq_write"
    /\ UNCHANGED <<entry, gitEditor, commits, staged, unstaged, upstream, ceVars, result,
                   staged_out, unstaged_out, merge_base, base_lookup, commit_log, rv,
                   sq_original_hash, sq_rc, sq_new_hash, final_message,
                   commits_at_review>>
    /\ UNCHANGED <<genVars, auxVars>>

\* 4) write the summary to a temp file and hash it
SQ_WriteReview ==
    /\ pc = "sq_write"
    /\ commits_at_review' = commits
    /\ IF summary_message = Unencodable
       THEN /\ rv' = [exists |-> TRUE, content |-> <<>>]
            /\ sq_original_hash' = sq_original_hash
            /\ pc' = "raised"
       ELSE /\ rv' = [exists |-> TRUE, content |-> summary_message]
            /\ sq_original_hash' = sha256_of_file(summary_message)
            /\ pc' = "sq_editor"
    /\ UNCHANGED <<entry, repoVars, ceVars, result, staged_out, unstaged_out,
                   merge_base, base_lookup, commit_log, summary_message, sq_rc, sq_new_hash,
                   final_message>>
    /\ UNCHANGED <<genVars, auxVars>>

\* a review that goes on whatever the editor's status
review_editor_ok_always(code) == TRUE

\* the editor's status lets the review go on
review_editor_ok(code) == code = 0

\* run the editor (through the shell when which() finds nothing);
\* a non-zero status cancels the squash
SQ_RunEditor ==
    /\ pc = "sq_editor"
    /\ LET sp == shlex_split(gitEditor) IN
       IF ~sp.ok \/ sp.parts = <<>>
       THEN pc' = "raised" /\ UNCHANGED <<rv, sq_rc, trace>>
       ELSE \E eff \in (IF which(sp.parts[1]) THEN EditorEffects
                        ELSE ShellEffects(gitEditor)) :
              /\ sq_rc' = eff.rc
              /\ trace' = Append(trace, "review_editor")
              /\ IF review_editor_ok(eff.rc)
                 THEN rv' = FileAfter(rv, eff) /\ pc' = "sq_rehash"
                 ELSE rv' = NoFile /\ pc' = "done"
    /\ UNCHANGED <<entry, gitEditor, commits, staged, unstaged, upstream, ceVars, result,
                   staged_out, unstaged_out, merge_base, base_lookup, commit_log,
                   summary_message, sq_original_hash, sq_new_hash,
                   final_message, commits_at_review>>
    /\ UNCHANGED <<genVars, auxVars>>

\* new_hash == original_hash cancels; otherwise read and strip the message
SQ_HashNew ==
    /\ pc = "sq_rehash"
    /\ IF ~rv.exists
       THEN pc' = "raised" /\ UNCHANGED <<rv, sq_new_hash, final_message>>
       ELSE /\ sq_new_hash' = sha256_of_file(rv.content)
            /\ rv' = NoFile
            /\ IF file_changed(sq_original_hash, sq_new_hash')
               THEN final_message' = Strip(rv.content) /\ pc' = "sq_reset"
               ELSE final_message' = final_message /\ pc' = "done"
    /\ UNCHANGED <<entry, repoVars, ceVars, result, staged_out, unstaged_out,
                   merge_base, base_lookup, commit_log, summary_message, sq_original_hash,
                   sq_rc, commits_at_review>>
    /\ UNCHANGED <<genVars, auxVars>>

\* 5) subprocess.run(["git", "reset", "--soft", merge_base], check=True)
SQ_Reset ==
    /\ pc = "sq_reset"
    /\ \/ /\ commits' = SubSeq(commits, 1, merge_base)
          /\ staged' = (staged \/ Len(commits) > merge_base)
          /\ trace' = Append(trace, "reset_soft")
          /\ pc' = "sq_commit"
       \/ /\ trace' = Append(trace, "reset_soft_failed")
          /\ pc' = "raised"
          /\ UNCHANGED <<commits, staged>>
    /\ UNCHANGED <<sqRest, sqVars>>
    /\ UNCHANGED <<genVars, auxVars>>

\* subprocess.run(["git", "commit", "-m", final_message], check=True)
SQ_Commit ==
    /\ pc = "sq_commit"
    /\ \E code \in GitCommitCodes(final_message, staged) :
        IF code = 0
        THEN /\ commits' = Append(commits, final_message)
             /\ staged' = FALSE
             /\ trace' = Append(trace, "commit_m")
             /\ pc' = "sq_upstream"
        ELSE /\ trace' = Append(trace, "commit_m_failed")
             /\ pc' = "raised"
             /\ UNCHANGED <<commits, staged>>
    /\ UNCHANGED <<sqRest, sqVars>>
    /\ UNCHANGED <<genVars, auxVars>>

\* the advisory that also pushes
upstream_advice_pushing(hasUpstream) ==
    IF hasUpstream THEN <<"warn_force_with_lease", "push">>
    ELSE <<"note_normal_push">>

\* what follows the squash commit: one log line, chosen by _has_upstream()
upstream_advice(hasUpstream) ==
    IF hasUpstream THEN <<"warn_force_with_lease">> ELSE <<"note_normal_push">>

\* if _has_upstream(): log.warning(...) else: log.info(...)
SQ_Upstream ==
    /\ pc = "sq_upstream"
    /\ trace' = trace \o upstream_advice(upstream)
    /\ pc' = "done"
    /\ UNCHANGED <<entry, gitEditor, commits, staged, unstaged, upstream, ceVars, sqVars>>
    /\ UNCHANGED <<genVars, auxVars>>

\* --------------------------------------------------------- specification
Next ==
    \/ CE_WriteTemp
    \/ CE_HashOriginal
    \/ CE_ResolveEditor
    \/ CE_RunEditor
    \/ CE_HashNew
    \/ CE_GitCommit
    \/ CE_Finally
    \/ CE_Return
    \/ SQ_FindRoot
    \/ SQ_ReadTree
    \/ SQ_LoadSettings
    \/ SQ_WorkingTree
    \/ SQ_Generate
    \/ SQ_AfterCommit
    \/ SQ_GetBranchBase
    \/ SQ_ReadLog
    \/ SQ_Summarize
    \/ SQ_WriteReview
    \/ SQ_RunEditor
    \/ SQ_HashNew
    \/ SQ_Reset
    \/ SQ_Commit
    \/ SQ_Upstream

Spec == Init /\ [][Next]_vars

\* ------------------------------------------------------------ properties
Happened(e) == Count(trace, e) > 0

\* `git commit -F` was started this many times
CommitFRuns == Count(trace, "commit_F") + Count(trace, "commit_F_failed")

\* the file the editor left holds other bytes than the message written
EditedAndSaved == rc = 0 /\ tf.exists /\ tf.content # commit_message

\* C1: commit_with_edit_template starts `git commit` only when the editor
\* ended with status 0 and the hash taken after editing differs from the
\* one taken before; when it returns without both (editor missing, editor
\* non-zero, or the same bytes in the file) the value is non-zero and git
\* commit was not started.
C1_CommitOnlyWhenSaved ==
    /\ git_read.called =>
          /\ rc = 0
          /\ original_hash # NoHash
          /\ new_hash # NoHash
          /\ new_hash # original_hash
    /\ (pc = "ce_finally" /\ pending.kind = "return" /\ ~EditedAndSaved) =>
          /\ pending.val # 0
          /\ ~git_read.called
          /\ CommitFRuns = 0

\* the editor ended with 0 and left the very bytes that were written
C1_Witness ==
    /\ pc = "ce_finally"
    /\ rc = 0
    /\ tf.exists
    /\ tf.content = commit_message
    /\ new_hash = original_hash
    /\ pending = [kind |-> "return", val |-> 1]
    /\ ~git_read.called

\* C2: when the editor ended with 0 and the file holds bytes other than the
\* ones written, `git commit -F` ran exactly once on the existing file with
\* exactly those bytes, and the value returned is 0 when git succeeded and
\* git's non-zero status otherwise.
C2_ChangedFileIsCommitted ==
    (pc = "ce_finally" /\ EditedAndSaved) =>
        /\ pending.kind = "return"
        /\ git_read.called
        /\ CommitFRuns = 1
        /\ git_read.file = [exists |-> TRUE, content |-> tf.content]
        /\ pending.val = git_read.code
        /\ (pending.val = 0) = Happened("commit_F")
        /\ Happened("commit_F") => commits[Len(commits)] = tf.content

\* one byte of the message was replaced and git accepted the commit
C2_Witness ==
    /\ pc = "ce_finally"
    /\ rc = 0
    /\ Len(tf.content) = Len(commit_message)
    /\ \E i \in 1..Len(commit_message) :
          /\ tf.content[i] # commit_message[i]
          /\ \A j \in 1..Len(commit_message) :
                j # i => tf.content[j] = commit_message[j]
    /\ git_read.code = 0
    /\ pending = [kind |-> "return", val |-> 0]

\* C3: when commit_with_edit_template ends, by a return or by an exception,
\* the temp file it created is gone.
C3_TempFileRemoved ==
    pc = "ce_exit" => ~tf.exists

\* the review ended without a save: editor non-zero, or the same hash
ReviewDeclined ==
    \/ sq_rc \notin {NoCode, 0}
    \/ sq_rc = 0 /\ sq_new_hash # NoHash /\ sq_new_hash = sq_original_hash

ResetRuns == Count(trace, "reset_soft") + Count(trace, "reset_soft_failed")

CommitMRuns == Count(trace, "commit_m") + Count(trace, "commit_m_failed")

\* C4: `git reset --soft` is started only after the review editor ended
\* with 0 and the review file's hash changed; after a declined review no
\* reset and no squash commit is started, the run has returned and HEAD's
\* history is what it was when the review began.
C4_ResetOnlyAfterSavedReview ==
    /\ ResetRuns > 0 =>
          /\ sq_rc = 0
          /\ sq_new_hash # NoHash
          /\ sq_new_hash # sq_original_hash
    /\ ReviewDeclined =>
          /\ pc = "done"
          /\ ResetRuns = 0
          /\ CommitMRuns = 0
          /\ commits = commits_at_review

\* the review editor ended with a non-zero status and the squash returned
C4_Witness ==
    /\ pc = "done"
    /\ Happened("review_editor")
    /\ sq_rc = 1
    /\ Len(commits) >= 2
    /\ commits = commits_at_review

\* C5: a soft reset is only ever started by a run whose working tree had
\* no unstaged changes.
C5_ResetOnlyWithoutUnstaged ==
    ResetRuns > 0 => ~unstaged_out

\* C6: a run that found unstaged changes and nothing staged has no
\* external effect at all (no provider call, no editor, no temp file, no
\* reset, no commit) and returns from the working-tree check.
C6_RefusesUnstagedOnly ==
    (entry = "squash" /\ pc \notin {"sq_start", "sq_tree"}
        /\ unstaged_out /\ ~staged_out) =>
        /\ trace = <<>>
        /\ tf = NoFile
        /\ rv = NoFile
        /\ commits_at_review = <<>>
        /\ pc \in {"sq_settings", "sq_worktree", "done", "raised", "exit"}
        /\ merge_base = -1

\* the refusal itself: settings loaded, unstaged only, returned
C6_Witness ==
    /\ entry = "squash"
    /\ pc = "done"
    /\ unstaged_out
    /\ ~staged_out
    /\ trace = <<>>

\* C7: a run that has ended after a soft reset has made exactly one squash
\* commit after it.
C7_ResetIsFollowedByOneCommit ==
    (pc \in {"done", "raised", "exit"} /\ Happened("reset_soft")) =>
        /\ Count(trace, "commit_m") = 1
        /\ commits = Append(SubSeq(commits_at_review, 1, merge_base),
                            final_message)

\* C8: once commit_with_edit_template has returned non-zero for the staged
\* changes, the squash returns: no base, no log, no summary, no review
\* file, no reset and no squash commit.
C8_AbortedCommitCancelsSquash ==
    (entry = "squash" /\ result \notin {NoCode, 0}) =>
        /\ pc \in {"sq_committed", "done"}
        /\ merge_base = -1
        /\ commit_log = <<>>
        /\ ~Happened("summarize")
        /\ ~Happened("review_editor")
        /\ rv = NoFile
        /\ ResetRuns = 0
        /\ CommitMRuns = 0

\* the commit of the staged changes was declined and the squash returned
C8_Witness ==
    /\ entry = "squash"
    /\ pc = "done"
    /\ staged_out
    /\ Happened("generate")
    /\ result = 1

\* the log has been read and was empty
LogFoundEmpty ==
    /\ entry = "squash"
    /\ merge_base # -1
    /\ pc # "sq_log"
    /\ commit_log = <<>>

\* C9: when the log between the base and HEAD is empty the squash returns
\* at once: no summary is asked for, no review file is written, no review
\* editor is run, no reset and no squash commit is started; a run that
\* had nothing staged has had no external effect at all.
C9_EmptyLogReturnsEarly ==
    LogFoundEmpty =>
        /\ pc = "done"
        /\ ~Happened("summarize")
        /\ ~Happened("review_editor")
        /\ rv = NoFile
        /\ ResetRuns = 0
        /\ CommitMRuns = 0
        /\ ~staged_out => trace = <<>>

\* a clean tree whose HEAD is the base: nothing done
C9_Witness ==
    /\ LogFoundEmpty
    /\ pc = "done"
    /\ merge_base >= 1
    /\ merge_base = Len(commits)
    /\ trace = <<>>

Advisories ==
    Count(trace, "warn_force_with_lease") + Count(trace, "note_normal_push")

MaxCalls == 2

\* _dispatch_generate: model_dispatch, provider name to bound method
model_dispatch ==
    [openai    |-> "generate_openai",
     gemini    |-> "generate_gemini",
     anthropic |-> "generate_anthropic",
     groq      |-> "generate_groq",
     xai       |-> "generate_xai",
     mistral   |-> "generate_mistral",
     deepseek  |-> "generate_deepseek",
     ollama    |-> "generate_ollama"]

\* a dispatcher that falls back to a provider instead of raising
dispatch_target_defaulting(model) ==
    IF model \in DOMAIN model_dispatch THEN model_dispatch[model]
    ELSE "generate_openai"

\* _dispatch_generate: the function called, or the ValueError raised
\* when default_model is not a key of model_dispatch
dispatch_target(model) ==
    IF model \in DOMAIN model_dispatch THEN model_dispatch[model]
    ELSE "ValueError"

\* the host each provider function sends its one request to;
\* generate_deepseek calls generate_openai with base_url api.deepseek.com
endpoint ==
    [generate_openai    |-> "api.openai.com",
     generate_gemini    |-> "generativelanguage.googleapis.com",
     generate_anthropic |-> "api.anthropic.com",
     generate_groq      |-> "api.groq.com",
     generate_xai       |-> "api.x.ai",
     generate_mistral   |-> "api.mistral.ai",
     generate_deepseek  |-> "api.deepseek.com",
     generate_ollama    |-> "ollama/api/chat"]

\* how one HTTP exchange can end: a 2xx reply with text, a 2xx reply
\* without text, a 4xx/5xx reply, no reply at all
HttpOutcomes == {"ok", "empty", "status_error", "transport_error"}

\* how a provider function leaves on each outcome of its request.
\* anthropic, gemini, groq call raise_for_status(); mistral and xai index
\* the decoded body directly; openai and deepseek go through the SDK
\* client; ollama turns every failure into ValueError.
provider_result(fn, http) ==
    IF fn = "generate_ollama"
    THEN IF http = "ok" THEN "return" ELSE "ValueError"
    ELSE IF fn \in {"generate_mistral", "generate_xai"}
    THEN CASE http = "ok" -> "return"
           [] http = "empty" -> "return"
           [] http = "status_error" -> "KeyError"
           [] OTHER -> "RequestException"
    ELSE IF fn \in {"generate_openai", "generate_deepseek"}
    THEN CASE http = "ok" -> "return"
           [] http = "empty" -> "AttributeError"
           [] http = "status_error" -> "APIStatusError"
           [] OTHER -> "APIConnectionError"
    ELSE CASE http = "ok" -> "return"
           [] http = "empty" -> "return"
           [] http = "status_error" -> "HTTPError"
           [] OTHER -> "RequestException"

\* _ollama_proc.poll() is None: the spawned process has not exited
Alive == {"starting", "serving"}

\* _ollama_is_running: some server answers /api/version or /api/tags
Healthy == server_up \/ _ollama_proc = "serving"

\* one entry of `events` that records the process state at that moment
Ev(kind, what) ==
    [kind |-> kind, what |-> what, proc |-> _ollama_proc,
     healthy |-> Healthy, flag |-> _ollama_started_by_us]

\* one entry of `events` the process state does not matter for
Note(kind, what) ==
    [kind |-> kind, what |-> what, proc |-> "", healthy |-> FALSE,
     flag |-> FALSE]

\* a provider function that sends its request again after a failure
provider_requests_retrying(fn, http) ==
    IF http \in {"status_error", "transport_error"}
    THEN <<Note("request", endpoint[fn]), Note("request", endpoint[fn])>>
    ELSE <<Note("request", endpoint[fn])>>

\* the requests a provider function sends: one requests.post or one
\* client.chat.completions.create, whatever comes back
provider_requests(fn, http) == <<Note("request", endpoint[fn])>>

\* the call leaves: a value is returned or an exception propagates
Outcome(res) ==
    IF res = "return" THEN Note("return", "reply") ELSE Note("raise", res)

llmRest == <<flowVars, genVars, valVars, cfgVars, promptVars, envVars,
              modeVars>>

\* the other groups and the response of the last request
llmKeep == <<llmRest, response>>

\* generate(git_diff) / summarize_commit_history(commit_messages):
\* build the prompt, then _dispatch_generate. An unknown default_model
\* raises; a remote provider function sends its request and leaves;
\* generate_ollama goes on through the server lifecycle.
LLM_Generate ==
    /\ llm_pc = "idle"
    /\ calls < MaxCalls
    /\ calls' = calls + 1
    /\ \E method \in {"generate", "summarize_commit_history"},
          http \in HttpOutcomes :
        LET fn == dispatch_target(default_model)
            entered == <<Note("call", method)>>
        IN  IF fn = "ValueError"
            THEN /\ events' = entered \o <<Note("raise", "ValueError")>>
                 /\ response' = NoResponse
                 /\ llm_pc' = "idle"
            ELSE IF fn = "generate_ollama"
            THEN /\ events' = entered \o <<Note("invoke", fn)>>
                 /\ response' = NoResponse
                 /\ llm_pc' = "ol_start"
            ELSE /\ events' = entered \o <<Note("invoke", fn)>>
                               \o provider_requests(fn, http)
                               \o <<Outcome(provider_result(fn, http))>>
                 /\ response' = http
                 /\ llm_pc' = "idle"
    /\ UNCHANGED <<_ollama_proc, _ollama_started_by_us, server_up, loopback,
                   installed, spawns, llmRest>>

\* auto-start is refused for every host but localhost, 127.0.0.1, ::1
may_autostart(isLoopback) == isLoopback

\* a start that spawns whenever the health check failed
must_spawn_always(proc) == TRUE

\* `self._ollama_proc is None or self._ollama_proc.poll() is not None`
must_spawn(proc) == proc \notin Alive

\* generate_ollama: _ensure_ollama_installed, then the head of
\* _start_ollama_server_if_needed up to the polling loop
OL_Start ==
    /\ llm_pc = "ol_start"
    /\ IF ~installed
       THEN /\ events' = events \o <<Note("raise", "ValueError: not installed")>>
            /\ llm_pc' = "idle"
            /\ UNCHANGED <<_ollama_proc, _ollama_started_by_us, spawns>>
       ELSE IF Healthy
       THEN /\ events' = events \o <<Ev("started", "reachable")>>
            /\ llm_pc' = "ol_post"
            /\ UNCHANGED <<_ollama_proc, _ollama_started_by_us, spawns>>
       ELSE IF ~may_autostart(loopback)
       THEN /\ events' = events \o <<Ev("raise", "ValueError: failed to reach")>>
            /\ llm_pc' = "idle"
            /\ UNCHANGED <<_ollama_proc, _ollama_started_by_us, spawns>>
       ELSE IF must_spawn(_ollama_proc)
       THEN \E popen \in {"ok", "OSError"} :
              IF popen = "ok"
              THEN /\ events' = events \o <<Ev("spawn", "ollama serve")>>
                   /\ _ollama_proc' = "starting"
                   /\ _ollama_started_by_us' = TRUE
                   /\ spawns' = spawns + 1
                   /\ llm_pc' = "ol_poll"
              ELSE /\ events' = events
                                \o <<Ev("raise", "ValueError: failed to start")>>
                   /\ llm_pc' = "idle"
                   /\ UNCHANGED <<_ollama_proc, _ollama_started_by_us, spawns>>
       ELSE /\ llm_pc' = "ol_poll"
            /\ UNCHANGED <<events, _ollama_proc, _ollama_started_by_us, spawns>>
    /\ UNCHANGED <<server_up, loopback, installed, calls, llmKeep>>

\* one round of `while time.time() < deadline`: the deadline has passed,
\* or the process has exited, or a server answers, or sleep(0.1)
OL_Poll ==
    /\ llm_pc = "ol_poll"
    /\ \E elapsed \in BOOLEAN :
        IF elapsed
        THEN /\ events' = events \o <<Ev("raise", "ValueError: timed out")>>
             /\ llm_pc' = "idle"
        ELSE IF _ollama_proc = "exited"
        THEN /\ events' = events \o <<Ev("raise", "ValueError: exited")>>
             /\ llm_pc' = "idle"
        ELSE IF Healthy
        THEN /\ events' = events \o <<Ev("started", "reachable")>>
             /\ llm_pc' = "ol_post"
        ELSE UNCHANGED <<events, llm_pc>>
    /\ UNCHANGED <<_ollama_proc, _ollama_started_by_us, server_up, loopback,
                   installed, calls, spawns, llmKeep>>

\* generate_ollama: requests.post(url, json=request, timeout=300) and
\* the decoding of the reply
OL_Post ==
    /\ llm_pc = "ol_post"
    /\ \E http \in HttpOutcomes :
        /\ events' = events \o provider_requests("generate_ollama", http)
                     \o <<Outcome(provider_result("generate_ollama", http))>>
        /\ response' = http
    /\ llm_pc' = "idle"
    /\ UNCHANGED <<_ollama_proc, _ollama_started_by_us, server_up, loopback,
                   installed, calls, spawns, llmRest>>

\* a stop that does not look at who started the server
should_stop_any(startedByUs, proc) == TRUE

\* _stop_ollama_server_if_started_by_us: the three early returns
should_stop(startedByUs, proc) ==
    startedByUs /\ proc # "none" /\ proc \in Alive

\* what the process does while it is being stopped: it is gone before the
\* first signal, it exits within the wait, or it outlives the wait
StopCourses == {"gone", "exits", "hangs"}

\* an escalation that does not wait for the outcome of SIGTERM
stop_signals_kill_always(how) ==
    IF how = "gone" THEN <<>> ELSE <<"SIGTERM", "SIGKILL">>

\* the signals sent: SIGTERM, and SIGKILL when wait(timeout=2) raised
stop_signals(how) ==
    CASE how = "gone" -> <<>>
      [] how = "exits" -> <<"SIGTERM">>
      [] OTHER -> <<"SIGTERM", "SIGKILL">>

\* the process at the moment the i-th signal is sent
proc_at(how, i) ==
    IF i = 1 \/ how = "hangs" THEN _ollama_proc ELSE "exited"

\* close(): killpg(pid, SIGTERM), wait(timeout=2), killpg(pid, SIGKILL).
\* The process may exit by itself after poll() and before killpg; then
\* killpg raises, terminate() finds the return code set and sends nothing.
LLM_Close ==
    /\ llm_pc = "idle"
    /\ IF should_stop(_ollama_started_by_us, _ollama_proc)
       THEN \E how \in StopCourses :
              /\ events' = events \o
                    [i \in 1..Len(stop_signals(how)) |->
                        [Ev("signal", stop_signals(how)[i])
                            EXCEPT !.proc = proc_at(how, i)]]
              /\ _ollama_proc' = IF _ollama_proc = "none" THEN "none"
                                 ELSE "exited"
       ELSE UNCHANGED <<events, _ollama_proc>>
    /\ UNCHANGED <<llm_pc, _ollama_started_by_us, server_up, loopback,
                   installed, calls, spawns, llmKeep>>

\* somebody else starts or stops an Ollama server on the base URL
Env_Server ==
    /\ server_up' = ~server_up
    /\ UNCHANGED <<llm_pc, _ollama_proc, _ollama_started_by_us, loopback,
                   installed, events, calls, spawns,
                   llmKeep>>

\* the spawned `ollama serve` begins to answer
Env_ProcServes ==
    /\ _ollama_proc = "starting"
    /\ _ollama_proc' = "serving"
    /\ UNCHANGED <<llm_pc, _ollama_started_by_us, server_up, loopback,
                   installed, events, calls, spawns,
                   llmKeep>>

\* the spawned `ollama serve` exits by itself
Env_ProcExits ==
    /\ _ollama_proc \in Alive
    /\ _ollama_proc' = "exited"
    /\ UNCHANGED <<llm_pc, _ollama_started_by_us, server_up, loopback,
                   installed, events, calls, spawns,
                   llmKeep>>

\* a generator built by CommitMessageGenerator(token, config, default_model)
InitLlm ==
    /\ FlowIdle
    /\ ModesIdle
    /\ default_model \in ModelNames
    /\ token = "key"
    /\ llm_pc = "idle"
    /\ _ollama_proc = "none"
    /\ _ollama_started_by_us = FALSE
    /\ server_up \in BOOLEAN
    /\ loopback \in BOOLEAN
    /\ installed \in BOOLEAN
    /\ events = <<>>
    /\ calls = 0
    /\ spawns = 0
    /\ response = NoResponse
    /\ ValIdle
    /\ CfgIdle
    /\ PromptIdle

NextLlm ==
    \/ LLM_Generate
    \/ OL_Start
    \/ OL_Poll
    \/ OL_Post
    \/ LLM_Close
    \/ Env_Server
    \/ Env_ProcServes
    \/ Env_ProcExits

SpecLlm == InitLlm /\ [][NextLlm]_vars

\* ---------------------------------------------- properties of the generator
\* positions in `events` of one kind
EventsOf(kind) == {i \in DOMAIN events : events[i].kind = kind}

\* the events of the call that starts at position i, up to the next call
CallEvents(i) ==
    {j \in DOMAIN events :
        /\ j >= i
        /\ \A k \in EventsOf("call") : k <= i \/ k > j}

\* positions in the call starting at i that hold an event of this kind
InCall(i, kind) == CallEvents(i) \cap EventsOf(kind)

\* C11: when default_model is not one of the eight providers, every
\* generate / summarize_commit_history call ends in exactly one ValueError
\* that comes right after the call is entered: no provider function is
\* invoked, no request is sent, nothing is started, and the call is over.
C11_UnknownProviderRaisesFirst ==
    default_model \notin Providers =>
        /\ EventsOf("invoke") = {}
        /\ EventsOf("request") = {}
        /\ EventsOf("spawn") = {}
        /\ llm_pc = "idle"
        /\ \A i \in EventsOf("call") :
            /\ i + 1 \in DOMAIN events
            /\ events[i + 1] = Note("raise", "ValueError")
            /\ Cardinality(InCall(i, "raise")) = 1
            /\ InCall(i, "return") = {}

\* a second call, made after the first one raised, raised the same way
C11_Witness ==
    /\ default_model = "cohere"
    /\ calls = 2
    /\ events = <<Note("call", "summarize_commit_history"),
                  Note("raise", "ValueError")>>

\* the host the configured provider is served from
ProviderHost(p) ==
    CASE p = "openai" -> "api.openai.com"
      [] p = "gemini" -> "generativelanguage.googleapis.com"
      [] p = "anthropic" -> "api.anthropic.com"
      [] p = "groq" -> "api.groq.com"
      [] p = "xai" -> "api.x.ai"
      [] p = "mistral" -> "api.mistral.ai"
      [] p = "deepseek" -> "api.deepseek.com"
      [] OTHER -> "ollama/api/chat"

\* C12: with a known provider, every generate / summarize_commit_history
\* call dispatches to exactly one provider function, the one registered
\* for default_model, exactly once; the call sends at most one generation
\* request and sends it to that provider; a call that ended in an error
\* sent no request after the first and leaves exactly one error.
C12_OneProviderOneRequest ==
    default_model \in Providers =>
        \A i \in EventsOf("call") :
            /\ Cardinality(InCall(i, "invoke")) = 1
            /\ \A j \in InCall(i, "invoke") :
                /\ j = i + 1
                /\ events[j].what = model_dispatch[default_model]
            /\ Cardinality(InCall(i, "request")) <= 1
            /\ \A j \in InCall(i, "request") :
                events[j].what = ProviderHost(default_model)
            /\ Cardinality(InCall(i, "raise") \cup InCall(i, "return")) <= 1
            /\ \A j \in InCall(i, "raise") :
                \A k \in InCall(i, "request") \cup InCall(i, "invoke") : k < j

\* the one request of a call failed and the error left the call, for
\* a provider that is reached through another provider's function
C12_Witness ==
    /\ default_model = "deepseek"
    /\ calls = 2
    /\ llm_pc = "idle"
    /\ Cardinality(EventsOf("request")) = 1
    /\ \E i \in EventsOf("request") :
        /\ events[i].what = "api.deepseek.com"
        /\ i + 1 \in EventsOf("raise")
        /\ i + 1 = Len(events)

\* this instance has spawned a process
Spawned == spawns > 0

\* the last event is a signal
Signalled(evs) == evs # <<>> /\ evs[Len(evs)].kind = "signal"

\* C13: every signal close() sends goes to a process this instance
\* spawned earlier and that was still running when close() looked, so
\* with no spawn (a server that was already reachable) nothing is ever
\* signalled; and a close() made while the spawned process is running
\* signals it, unless the process exits by itself before the signal.
C13_CloseSignalsOwnLiveProcessOnly ==
    /\ [](\A i \in EventsOf("signal") :
            /\ Spawned
            /\ events[i].proc \in Alive
            /\ events[i].flag)
    /\ [][(LLM_Close /\ Spawned /\ _ollama_proc \in Alive) =>
            /\ _ollama_proc' = "exited"
            /\ Signalled(events') \/ events' = events]_vars

\* close() has signalled the process this instance spawned while a
\* server of somebody else was answering too
C13_Witness ==
    /\ llm_pc = "idle"
    /\ spawns = 1
    /\ server_up
    /\ _ollama_proc = "exited"
    /\ Signalled(events)
    /\ events[Len(events)].what = "SIGTERM"

\* C14: a spawn happens only after a failed health check, for a loopback
\* host, and with no live process of this instance; with a non-loopback
\* host nothing is ever spawned; the start returns (and the request is
\* sent) only at a moment a server answers the health check; the
\* "failed to start" error is raised only once the process has exited.
C14_StartSpawnsOnlyWhenNeeded ==
    /\ \A i \in EventsOf("spawn") :
        /\ ~events[i].healthy
        /\ loopback
        /\ events[i].proc \notin Alive
    /\ ~loopback => ~Spawned /\ _ollama_proc = "none"
    /\ \A i \in EventsOf("started") : events[i].healthy
    /\ \A i \in EventsOf("request") :
        events[i].what = "ollama/api/chat" => i - 1 \in EventsOf("started")
    /\ \A i \in EventsOf("raise") :
        events[i].what = "ValueError: exited" => events[i].proc = "exited"
    /\ llm_pc = "ol_post" => events[Len(events)].kind = "started"

\* a first call spawned the server and gave up; the second call found
\* the process alive, spawned nothing and returned once it answered
C14_Witness ==
    /\ spawns = 1
    /\ calls = 2
    /\ EventsOf("spawn") = {}
    /\ ~server_up
    /\ \E j \in EventsOf("started") : events[j].proc = "serving"

\* ======================================================== _validate_llm_call
\* a piece of an exception's text: the lower-case spelling and whether
\* the text spells it with capitals
Cap(w) == [w |-> w, up |-> TRUE]

Low(w) == [w |-> w, up |-> FALSE]

\* str.lower() on one piece and on a text
LowerPiece(t) == [t EXCEPT !.up = FALSE]

lower(text) == [i \in DOMAIN text |-> LowerPiece(text[i])]

\* `marker in msg`: the marker occurs as a contiguous part of the text
Contains(msg, marker) ==
    \E i \in 1..Len(msg) :
        /\ i + Len(marker) - 1 <= Len(msg)
        /\ SubSeq(msg, i, i + Len(marker) - 1) = marker

\* _validate_llm_call: auth_markers
auth_markers ==
    {<<Low("api"), Low("key")>>,
     <<Low("apikey")>>,
     <<Low("authorization")>>,
     <<Low("unauthorized")>>,
     <<Low("forbidden")>>,
     <<Low("400")>>,
     <<Low("401")>>,
     <<Low("403")>>,
     <<Low("invalid"), Low("token")>>,
     <<Low("invalid"), Low("api"), Low("key")>>,
     <<Low("authentication")>>,
     <<Low("permission"), Low("denied")>>}

\* what the wrapped call can raise: exception type, str(exc), and whether
\* the provider rejected the credentials
Failures ==
    {[type |-> "HTTPError", auth |-> TRUE,
      text |-> <<Low("401"), Cap("client"), Cap("error"), Cap("unauthorized")>>],
     [type |-> "HTTPError", auth |-> TRUE,
      text |-> <<Low("403"), Cap("client"), Cap("error"), Cap("forbidden")>>],
     [type |-> "AuthenticationError", auth |-> TRUE,
      text |-> <<Cap("invalid"), Cap("api"), Low("key")>>],
     [type |-> "AuthenticationError", auth |-> TRUE,
      text |-> <<Cap("unauthorized")>>],
     [type |-> "HTTPError", auth |-> FALSE,
      text |-> <<Low("400"), Cap("client"), Cap("error"), Cap("bad"),
                 Cap("request")>>],
     [type |-> "ValueError", auth |-> FALSE,
      text |-> <<Cap("ollama"), Low("request"), Low("failed"), Low("with"),
                 Cap("http"), Low("400")>>],
     [type |-> "HTTPError", auth |-> FALSE,
      text |-> <<Low("500"), Cap("server"), Cap("error")>>],
     [type |-> "ReadTimeout", auth |-> FALSE,
      text |-> <<Cap("read"), Low("timed"), Low("out")>>],
     [type |-> "ConnectionError", auth |-> FALSE,
      text |-> <<Cap("connection"), Low("refused")>>],
     [type |-> "KeyError", auth |-> FALSE,
      text |-> <<Low("choices")>>],
     [type |-> "TypeError", auth |-> FALSE,
      text |-> <<Low("unexpected"), Low("keyword"), Low("argument")>>]}

\* the wrapped fn returns a reply or raises one of the failures
FnBehaviours ==
    {[raises |-> FALSE, type |-> "", auth |-> FALSE, text |-> <<Low("reply")>>]}
    \cup {[raises |-> TRUE, type |-> f.type, auth |-> f.auth, text |-> f.text] :
            f \in Failures}

\* tokens the call can be given: None, empty, blank, a key
ValTokens == Tokens \cup {" "}

\* str.strip() on a token
strip_token(tok) == IF tok = " " THEN "" ELSE tok

\* `if not token or not token.strip()`
token_blank(tok) == tok = NoToken \/ tok = "" \/ strip_token(tok) = ""

MissingText == <<Cap("api"), Low("token"), Low("is"), Low("missing")>>

CheckKeyText == <<Cap("api"), Low("token"), Low("is"), Low("invalid"),
                  Low("check"), Low("your"), Cap("api"), Low("key")>>

\* _validate_llm_call(fn, *args, token=tok): how the call leaves and
\* whether fn was called
_validate_llm_call(fn, tok) ==
    IF token_blank(tok)
    THEN [kind |-> "raise", type |-> "ValueError", text |-> MissingText,
          called |-> FALSE]
    ELSE IF ~fn.raises
    THEN [kind |-> "return", type |-> "", text |-> fn.text, called |-> TRUE]
    ELSE IF \E marker \in auth_markers : Contains(lower(fn.text), marker)
    THEN [kind |-> "raise", type |-> "ValueError", text |-> CheckKeyText,
          called |-> TRUE]
    ELSE [kind |-> "raise", type |-> fn.type, text |-> fn.text,
          called |-> TRUE]

valRest == <<flowVars, llmVars, cfgVars, promptVars, envVars,
              modeVars>>

\* main.run: commit_message = _validate_llm_call(generator.generate, diff,
\* token=token, ...)
VAL_Call ==
    /\ v_out.kind = "pending"
    /\ v_out' = _validate_llm_call(v_fn, token)
    /\ UNCHANGED <<v_fn, genVars, valRest>>

InitValidate ==
    /\ FlowIdle
    /\ ModesIdle
    /\ LlmIdle
    /\ CfgIdle
    /\ PromptIdle
    /\ default_model \in ModelNames
    /\ token \in ValTokens
    /\ v_fn \in FnBehaviours
    /\ v_out = [kind |-> "pending", type |-> "", text |-> <<>>,
                called |-> FALSE]

NextValidate ==
    \/ VAL_Call

SpecValidate == InitValidate /\ [][NextValidate]_vars

\* C15: a failure of the wrapped call is replaced by the 'check your API
\* key' ValueError exactly when the provider rejected the credentials;
\* any other failure, a 400 bad request or a timeout among them, leaves
\* with its own type and text.
C15_RewritesOnlyAuthFailures ==
    (v_out.kind # "pending" /\ v_out.called /\ v_fn.raises) =>
        IF v_fn.auth
        THEN v_out.type = "ValueError" /\ v_out.text = CheckKeyText
        ELSE v_out.type = v_fn.type /\ v_out.text = v_fn.text

\* C16: with the local model server as provider and no token (None or
\* empty), neither workflow stops on the missing token: squash_branch
\* does not exit before the generator is built, and _validate_llm_call
\* does not raise before it has called the provider.
C16_TokenlessProviderRuns ==
    (default_model = "ollama" /\ token \in {NoToken, ""}) =>
        /\ pc # "exit"
        /\ ~(v_out.kind = "raise" /\ ~v_out.called)

\* ================================================================ load_config
\* a key the mapping does not hold, and YAML null
Absent == "<absent>"

PyNone == "<None>"

\* a provider block: not there, a scalar, or a mapping with some keys
NoBlock == [present |-> FALSE, mapping |-> FALSE, keys |-> {}]

ScalarBlock == [present |-> TRUE, mapping |-> FALSE, keys |-> {}]

Block(keys) == [present |-> TRUE, mapping |-> TRUE, keys |-> keys]

FullBlock == Block({"model", "temperature"})

\* provider names of DEFAULT_CONFIG the model follows, and a name that
\* DEFAULT_CONFIG has no entry for
ConfigProviders == {"groq", "openai"}

Blocks == {NoBlock, ScalarBlock, FullBlock, Block({"model"}), Block({"temperature"})}

\* values the files give `style`
Styles == {Absent, PyNone, "None ", "friendly", "angry", ""}

\* the mappings a config file can hold: two provider blocks, an unknown
\* top-level key, `default`, `style`
Configs ==
    [groq : Blocks, openai : {NoBlock, FullBlock, Block({"model"})},
     bogus : BOOLEAN, default : {Absent, "groq", "openai"}, style : Styles]

\* the mapping `{}`
EmptyConfig ==
    [groq |-> NoBlock, openai |-> NoBlock, bogus |-> FALSE,
     default |-> Absent, style |-> Absent]

\* DEFAULT_CONFIG
DEFAULT_CONFIG ==
    [groq |-> FullBlock, openai |-> FullBlock, bogus |-> FALSE,
     default |-> "groq", style |-> "professional"]

\* a config file: missing, of size 0, not parseable, or holding a mapping
NoConfigFile == [state |-> "absent", cfg |-> EmptyConfig]

MappingFile(cfg) == [state |-> "mapping", cfg |-> cfg]

ConfigFiles ==
    {NoConfigFile,
     [state |-> "empty", cfg |-> EmptyConfig],
     [state |-> "yaml_error", cfg |-> EmptyConfig]}
    \cup {MappingFile(cfg) : cfg \in Configs}

\* home files looked at when a repository file exists
HomeFilesBehindRepo ==
    {NoConfigFile, MappingFile(DEFAULT_CONFIG),
     MappingFile([DEFAULT_CONFIG EXCEPT !.bogus = TRUE])}

\* `yaml.safe_load(f) or other`: an empty mapping is falsy
or_else(cfg, other) == IF cfg = EmptyConfig THEN other ELSE cfg

\* value.strip().lower() on the style spellings
strip_lower(value) ==
    IF value \in {"None ", " None ", "NONE"} THEN "none" ELSE value

\* _normalize_none_like on `style`
_normalize_none_like(cfg) ==
    IF cfg.style = Absent THEN cfg
    ELSE IF cfg.style = PyNone THEN [cfg EXCEPT !.style = "none"]
    ELSE IF strip_lower(cfg.style) = "none" THEN [cfg EXCEPT !.style = "none"]
    ELSE cfg

allowed_styles ==
    {"professional", "neutral", "friendly", "funny", "excited", "sarcastic",
     "apologetic", "academic"}

\* _validate_style(config.get("style")): the style returned, or the
\* ValueError
_validate_style(style) ==
    IF style \in {Absent, PyNone} THEN "none"
    ELSE IF style = "" THEN "ValueError"
    ELSE IF strip_lower(style) = "none" THEN "none"
    ELSE IF strip_lower(style) \notin allowed_styles THEN "ValueError"
    ELSE strip_lower(style)

\* a validation that only looks for unknown keys
_validate_config_keys_lenient(cfg) ==
    IF cfg.bogus THEN "KeyError: unknown keys" ELSE "ok"

\* _validate_config_keys(config, DEFAULT_CONFIG): "ok" or the KeyError
_validate_config_keys(cfg) ==
    IF cfg.bogus THEN "KeyError: unknown keys"
    ELSE IF \A p \in ConfigProviders : ~cfg[p].present
    THEN "KeyError: no provider"
    ELSE IF \E p \in ConfigProviders : cfg[p].present /\ ~cfg[p].mapping
    THEN "KeyError: not a mapping"
    ELSE IF \E p \in ConfigProviders :
              cfg[p].present /\ {"model", "temperature"} \ cfg[p].keys # {}
    THEN "KeyError: missing required keys"
    ELSE "ok"

\* the shared tail of both branches: normalise, validate keys, validate
\* style, return the mapping
validated(cfg, source) ==
    LET norm == _normalize_none_like(cfg)
        keysResult == _validate_config_keys(norm)
        style == _validate_style(norm.style)
    IN  IF keysResult # "ok"
        THEN [status |-> "error", error |-> keysResult, cfg |-> EmptyConfig,
              source |-> source]
        ELSE IF style = "ValueError"
        THEN [status |-> "error", error |-> "ValueError: style",
              cfg |-> EmptyConfig, source |-> source]
        ELSE [status |-> "ok", error |-> "", cfg |-> [norm EXCEPT !.style = style],
              source |-> source]

\* default_config returned with its style validated
defaults_returned ==
    [status |-> "ok", error |-> "",
     cfg |-> [DEFAULT_CONFIG EXCEPT !.style = _validate_style(DEFAULT_CONFIG.style)],
     source |-> "default"]

\* load_config(): what it returns or raises
load_config(repo, home) ==
    IF repo.state # "absent"
    THEN IF repo.state = "yaml_error"
         THEN [status |-> "error", error |-> "ValueError: parse",
               cfg |-> EmptyConfig, source |-> "repo"]
         ELSE validated(or_else(repo.cfg, EmptyConfig), "repo")
    ELSE IF home.state \in {"absent", "empty"} THEN defaults_returned
    ELSE IF home.state = "yaml_error" THEN defaults_returned
    ELSE validated(or_else(home.cfg, DEFAULT_CONFIG),
                   IF home.cfg = EmptyConfig THEN "default" ELSE "home")

cfgRest == <<flowVars, genVars, llmVars, valVars, promptVars, envVars,
              modeVars>>

\* config = load_config(); a missing or empty home file is written with
\* the defaults when no repository file exists
CFG_Load ==
    /\ loaded.status = "pending"
    /\ loaded' = load_config(repo_file, home_file)
    /\ home_file' =
        IF repo_file.state = "absent" /\ home_file.state \in {"absent", "empty"}
        THEN MappingFile(DEFAULT_CONFIG)
        ELSE home_file
    /\ UNCHANGED <<repo_file, cfgRest>>

InitConfig ==
    /\ FlowIdle
    /\ ModesIdle
    /\ GenIdle
    /\ LlmIdle
    /\ ValIdle
    /\ PromptIdle
    /\ repo_file \in ConfigFiles \ {[state |-> "empty", cfg |-> EmptyConfig]}
    /\ home_file \in IF repo_file = NoConfigFile THEN ConfigFiles
                     ELSE HomeFilesBehindRepo
    /\ loaded = [status |-> "pending", error |-> "", cfg |-> EmptyConfig,
                 source |-> ""]

NextConfig ==
    \/ CFG_Load

SpecConfig == InitConfig /\ [][NextConfig]_vars

\* ------------------------------------------------- properties of load_config
\* the file load_config reads: the repository's when there is one
ActiveFile == IF repo_file.state # "absent" THEN repo_file ELSE home_file

ActiveName == IF repo_file.state # "absent" THEN "repo" ELSE "home"

\* the provider blocks a mapping holds
BlocksOf(cfg) == {p \in ConfigProviders : cfg[p].present}

\* C17: a configuration load_config returns names as `default` a provider
\* whose block it holds, and each block it holds is a mapping with both
\* `model` and `temperature`.
C17_ReturnedConfigHasDefaultBlock ==
    loaded.status = "ok" =>
        /\ loaded.cfg.default \in BlocksOf(loaded.cfg)
        /\ \A p \in BlocksOf(loaded.cfg) :
            /\ loaded.cfg[p].mapping
            /\ {"model", "temperature"} \subseteq loaded.cfg[p].keys

\* the faults of a config file the claim lists
UnknownKey(cfg) == cfg.bogus

NoProviderBlock(cfg) == BlocksOf(cfg) = {}

BrokenBlock(cfg) ==
    \E p \in BlocksOf(cfg) :
        ~cfg[p].mapping \/ ~({"model", "temperature"} \subseteq cfg[p].keys)

BadStyle(cfg) == cfg.style \in {"angry", ""}

Faulty(cfg) ==
    UnknownKey(cfg) \/ NoProviderBlock(cfg) \/ BrokenBlock(cfg) \/ BadStyle(cfg)

\* load_config raised on the active file itself
FailedOnActive == loaded.status = "error" /\ loaded.source = ActiveName

PyTrue == "<True>"

PyFalse == "<False>"

\* values the configuration gives `language`, `style` and `emoji`
Languages == {Absent, PyNone, "none", " None ", "de", "xx"}

PromptStyles == {Absent, PyNone, "none", "NONE", "friendly", ""}

Emojis == {Absent, PyNone, "none", "None ", PyTrue, PyFalse, "yes", ""}

\* values the configuration gives `prompt_file` / `squash_prompt_file`
PromptPaths == {Absent, "", " ", "my_prompt.md"}

PromptConfigs ==
    [language : Languages, style : PromptStyles, emoji : Emojis,
     path : PromptPaths]

\* what a prompt file can hold; a text is a sequence of pieces and " "
\* is the whitespace piece
UserTexts == {<<>>, <<" ">>, <<" ", "Custom prompt", " ">>, <<"Custom prompt">>}

PromptFiles == {NoFile} \cup {[exists |-> TRUE, content |-> t] : t \in UserTexts}

\* the packaged defaults/<default_filename>: not installed, or shipped
BundledTexts == {<<"text of the default prompt file", " ">>}

BundledFiles ==
    {NoFile} \cup {[exists |-> TRUE, content |-> t] : t \in BundledTexts}

_HARDCODED_COMMIT_PROMPT ==
    <<"You are an expert software engineer assistant. ... summarizing the provided git diff changes. ...">>

_HARDCODED_SQUASH_PROMPT ==
    <<"You are an expert software engineer assistant. ... summarize multiple existing commit messages ...">>

\* config.get(key, default)
get(value, default) == IF value = Absent THEN default ELSE value

\* `value is None`, or a string with value.strip().lower() == "none"
none_like(value) == value = PyNone \/ strip_lower(value) = "none"

\* LANGUAGE_MAP.get(lang_code, "English")
_language_name(lang_code) == IF lang_code = "de" THEN "German" ELSE "English"

_language_instruction(cfg) ==
    LET lang_code == get(cfg.language, "en")
    IN  IF none_like(lang_code) THEN <<>>
        ELSE <<"Write the commit message in ", _language_name(lang_code), ".">>

_style_instruction(cfg) ==
    LET style == get(cfg.style, "professional")
    IN  IF none_like(style) THEN <<>>
        ELSE <<"Write the commit message in the following tone style: ",
               style, ".">>

\* truthiness of an emoji value that is not none-like
truthy(value) == value \notin {PyFalse, ""}

_emoji_instruction(cfg) ==
    LET emoji_value == get(cfg.emoji, PyTrue)
    IN  IF none_like(emoji_value) THEN <<>>
        ELSE IF truthy(emoji_value)
        THEN <<"Use relevant emojis in the commit message where appropriate. Emojis should enhance the clarity and tone of the message.">>
        ELSE <<"Do not use any emojis in the commit message.">>

\* " ".join(parts)
RECURSIVE JoinSpace(_)
JoinSpace(parts) ==
    IF parts = <<>> THEN <<>>
    ELSE IF Len(parts) = 1 THEN parts[1]
    ELSE parts[1] \o <<" ">> \o JoinSpace(Tail(parts))

NonEmpty(p) == p # <<>>

\* a suffix that joins the three parts without dropping the empty ones
_config_instructions_unfiltered(cfg) ==
    JoinSpace(<<_language_instruction(cfg), _style_instruction(cfg),
                _emoji_instruction(cfg)>>)

\* " ".join(p for p in parts if p)
_config_instructions(cfg) ==
    JoinSpace(SelectSeq(<<_language_instruction(cfg), _style_instruction(cfg),
                          _emoji_instruction(cfg)>>, NonEmpty))

\* `user_path and isinstance(user_path, str) and user_path.strip()`
path_given(path) == path \notin {Absent, "", " "}

\* load_prompt_file: the user's file when it is a file, else the packaged
\* default when it is there, else the hardcoded string
load_prompt_file(path, userFile, bundled, hardcoded_fallback) ==
    IF path_given(path) /\ userFile.exists THEN Strip(userFile.content)
    ELSE IF bundled.exists THEN Strip(bundled.content)
    ELSE hardcoded_fallback

hardcoded(builder) ==
    IF builder = "_build_commit_prompt" THEN _HARDCODED_COMMIT_PROMPT
    ELSE _HARDCODED_SQUASH_PROMPT

\* f"{base} {suffix}" if suffix else base
build_prompt(base, suffix) ==
    IF suffix # <<>> THEN base \o <<" ">> \o suffix ELSE base

promptRest == <<flowVars, genVars, llmVars, valVars, cfgVars, envVars,
              modeVars>>

\* _build_commit_prompt / _build_squash_prompt
PR_Build ==
    /\ prompt_out.status = "pending"
    /\ LET base == load_prompt_file(p_config.path, user_file, bundled_file,
                                    hardcoded(prompt_out.builder))
       IN  prompt_out' = [prompt_out EXCEPT
                            !.status = "built",
                            !.base = base,
                            !.prompt = build_prompt(base,
                                           _config_instructions(p_config))]
    /\ UNCHANGED <<p_config, user_file, bundled_file, promptRest>>

InitPrompt ==
    /\ FlowIdle
    /\ ModesIdle
    /\ GenIdle
    /\ LlmIdle
    /\ ValIdle
    /\ CfgIdle
    /\ p_config \in PromptConfigs
    /\ user_file \in IF path_given(p_config.path) THEN PromptFiles ELSE {NoFile}
    /\ bundled_file \in BundledFiles
    /\ \E builder \in {"_build_commit_prompt", "_build_squash_prompt"} :
        prompt_out = [status |-> "pending", builder |-> builder,
                      base |-> <<>>, prompt |-> <<>>]

NextPrompt ==
    \/ PR_Build

SpecPrompt == InitPrompt /\ [][NextPrompt]_vars

\* -------------------------------------------- properties of prompt building
\* the spellings of "no instruction": None and the word none
NoneValues == {PyNone, "none", "None ", " None ", "NONE"}

LanguageOn == p_config.language \notin NoneValues

StyleOn == p_config.style \notin NoneValues

EmojiOn == p_config.emoji \notin NoneValues

\* what follows the base in the prompt built
AfterBase ==
    SubSeq(prompt_out.prompt, Len(prompt_out.base) + 1, Len(prompt_out.prompt))

\* positions of AfterBase where an instruction of this kind begins
LanguageAt == {i \in DOMAIN AfterBase : AfterBase[i] = "Write the commit message in "}

StyleAt ==
    {i \in DOMAIN AfterBase :
        AfterBase[i] = "Write the commit message in the following tone style: "}

EmojiAt ==
    {i \in DOMAIN AfterBase :
        AfterBase[i] \in
            {"Use relevant emojis in the commit message where appropriate. Emojis should enhance the clarity and tone of the message.",
             "Do not use any emojis in the commit message."}}

\* C19: the prompt built starts with the base; with language, style and
\* emoji all None/none it is the base and nothing more; otherwise the base
\* is followed by one space and the instructions, each present exactly
\* when its own value is not None/none, in the order language, style,
\* emoji, with one space between two instructions and none at the end.
C19_PromptIsBasePlusInstructions ==
    prompt_out.status = "built" =>
        /\ Len(prompt_out.prompt) >= Len(prompt_out.base)
        /\ SubSeq(prompt_out.prompt, 1, Len(prompt_out.base)) = prompt_out.base
        /\ (~LanguageOn /\ ~StyleOn /\ ~EmojiOn) <=> AfterBase = <<>>
        /\ Cardinality(LanguageAt) = IF LanguageOn THEN 1 ELSE 0
        /\ Cardinality(StyleAt) = IF StyleOn THEN 1 ELSE 0
        /\ Cardinality(EmojiAt) = IF EmojiOn THEN 1 ELSE 0
        /\ \A i \in LanguageAt, j \in StyleAt \cup EmojiAt : i < j
        /\ \A i \in StyleAt, j \in EmojiAt : i < j
        /\ \A i \in DOMAIN AfterBase :
            AfterBase[i] = " " <=>
                i + 1 \in LanguageAt \cup StyleAt \cup EmojiAt

\* style none left the tone sentence out while the language and emoji
\* sentences stayed, after a base read from the user's file
C19_Witness ==
    /\ prompt_out.status = "built"
    /\ prompt_out.builder = "_build_squash_prompt"
    /\ p_config.style = "NONE"
    /\ p_config.language = "de"
    /\ p_config.emoji = PyFalse
    /\ prompt_out.base = <<"Custom prompt">>
    /\ prompt_out.prompt =
        <<"Custom prompt", " ", "Write the commit message in ", "German", ".",
          " ", "Do not use any emojis in the commit message.">>

\* the user's file counts when a path is configured and the file exists
\* with something in it besides whitespace
UserFileUsable ==
    /\ p_config.path \notin {Absent, "", " "}
    /\ user_file.exists
    /\ Strip(user_file.content) # <<>>

\* C20: the base is the user's file when that exists and is not empty,
\* else the packaged default file when it exists, else the hardcoded
\* string; an empty user file is passed over, so the base is never empty.
C20_BaseResolutionOrder ==
    prompt_out.status = "built" =>
        /\ prompt_out.base # <<>>
        /\ prompt_out.base =
            IF UserFileUsable THEN Strip(user_file.content)
            ELSE IF bundled_file.exists THEN Strip(bundled_file.content)
            ELSE IF prompt_out.builder = "_build_commit_prompt"
            THEN _HARDCODED_COMMIT_PROMPT
            ELSE _HARDCODED_SQUASH_PROMPT

\* ------------------------------------------- the editor that is resolved
\* git printed a non-blank line
GitAnswers ==
    /\ editor_sources.git_var # GitVarFails
    /\ strip_output(editor_sources.git_var) # ""

\* the command line has a first word and shutil.which finds nothing for it
ExecutableMissing ==
    LET sp == shlex_split(gitEditor) IN
    sp.ok /\ sp.parts # <<>> /\ ~which(sp.parts[1])

\* C21: the editor is git's answer, else the first set variable among
\* GIT_EDITOR, VISUAL and EDITOR, else the system editor; and when no
\* executable is found for its first word, commit_with_edit_template
\* returns a non-zero value, no editor process was started and `git commit`
\* was not started.
C21_MissingEditorFailsBeforeLaunch ==
    /\ GitAnswers => gitEditor = strip_output(editor_sources.git_var)
    /\ (~GitAnswers /\ editor_sources.GIT_EDITOR # "") =>
          gitEditor = editor_sources.GIT_EDITOR
    /\ (~GitAnswers /\ editor_sources.GIT_EDITOR = ""
        /\ editor_sources.VISUAL # "") =>
          gitEditor = editor_sources.VISUAL
    /\ (~GitAnswers /\ editor_sources.GIT_EDITOR = ""
        /\ editor_sources.VISUAL = "" /\ editor_sources.EDITOR # "") =>
          gitEditor = editor_sources.EDITOR
    /\ (~GitAnswers /\ editor_sources.GIT_EDITOR = ""
        /\ editor_sources.VISUAL = "" /\ editor_sources.EDITOR = "") =>
          gitEditor \in {"vi", "nano"}
    /\ ExecutableMissing =>
          /\ ~Happened("editor")
          /\ CommitFRuns = 0
          /\ ~git_read.called
          /\ (pc \in {"ce_finally", "ce_exit"} /\ original_hash # NoHash) =>
                pending.kind = "return" /\ pending.val # 0
          /\ (pc \in {"done", "sq_committed"} /\ original_hash # NoHash) =>
                result # 0 /\ result # NoCode

\* git var failed, GIT_EDITOR is unset and VISUAL names a missing program
\* while EDITOR names an existing one: the call returned 1 with no effect
C21_Witness ==
    /\ entry = "commit"
    /\ pc = "done"
    /\ editor_sources.git_var = GitVarFails
    /\ editor_sources.GIT_EDITOR = ""
    /\ editor_sources.VISUAL = "nosuch"
    /\ editor_sources.EDITOR = "vi"
    /\ result = 1
    /\ trace = <<>>

\* ------------------------------------------------ cli: modes and options
Modes == {"COMMIT", "LIST", "SQUASH", "UPDATE"}

\* the boolean options of the callback
CliFlags ==
    [help_flag : BOOLEAN, version : BOOLEAN, list_flag : BOOLEAN,
     squash : BOOLEAN, update : BOOLEAN, stage_tracked : BOOLEAN,
     enable_debug : BOOLEAN, generate_config : BOOLEAN]

\* sum(flags) on Python booleans
sum_flags(list_flag, squash, update) ==
    (IF list_flag THEN 1 ELSE 0) + (IF squash THEN 1 ELSE 0)
    + (IF update THEN 1 ELSE 0)

\* a resolution in which the first flag set wins
resolve_mode_first_wins(list_flag, squash, update) ==
    IF list_flag THEN [exit |-> NoExit, mode |-> "LIST"]
    ELSE IF squash THEN [exit |-> NoExit, mode |-> "SQUASH"]
    ELSE IF update THEN [exit |-> NoExit, mode |-> "UPDATE"]
    ELSE [exit |-> NoExit, mode |-> "COMMIT"]

\* resolve_mode: typer.Exit(code=1) on more than one flag, else the mode
resolve_mode(list_flag, squash, update) ==
    IF sum_flags(list_flag, squash, update) > 1
    THEN [exit |-> 1, mode |-> NoMode]
    ELSE IF list_flag THEN [exit |-> NoExit, mode |-> "LIST"]
    ELSE IF squash THEN [exit |-> NoExit, mode |-> "SQUASH"]
    ELSE IF update THEN [exit |-> NoExit, mode |-> "UPDATE"]
    ELSE [exit |-> NoExit, mode |-> "COMMIT"]

\* validate_options: the code of the typer.Exit raised, NoExit on return
validate_options(mode, stage_tracked, enable_debug, help_flag, version_flag) ==
    IF enable_debug /\ (help_flag \/ version_flag) THEN 1
    ELSE IF stage_tracked /\ mode # "COMMIT" THEN 1
    ELSE NoExit

modeRest == <<flowVars, genVars, llmVars, valVars, cfgVars, promptVars,
              envVars>>

\* if help_flag: print_help_and_exit(); if version: raise typer.Exit()
MD_Eager ==
    /\ m_pc = "callback"
    /\ IF m_flags.help_flag \/ m_flags.version
       THEN m_pc' = "exited" /\ m_exit' = 0
       ELSE m_pc' = "resolve" /\ m_exit' = m_exit
    /\ UNCHANGED <<m_flags, m_mode, m_handler, modeRest>>

\* mode = resolve_mode(list_flag=..., squash=..., update=...)
MD_Resolve ==
    /\ m_pc = "resolve"
    /\ LET r == resolve_mode(m_flags.list_flag, m_flags.squash,
                             m_flags.update) IN
       IF r.exit # NoExit
       THEN m_pc' = "exited" /\ m_exit' = r.exit /\ m_mode' = m_mode
       ELSE m_pc' = "validate" /\ m_exit' = m_exit /\ m_mode' = r.mode
    /\ UNCHANGED <<m_flags, m_handler, modeRest>>

\* validate_options(mode=mode, stage_tracked=..., enable_debug=..., ...)
MD_Validate ==
    /\ m_pc = "validate"
    /\ LET code == validate_options(m_mode, m_flags.stage_tracked,
                                    m_flags.enable_debug, m_flags.help_flag,
                                    m_flags.version) IN
       IF code # NoExit
       THEN m_pc' = "exited" /\ m_exit' = code
       ELSE m_pc' = "dispatch" /\ m_exit' = m_exit
    /\ UNCHANGED <<m_flags, m_mode, m_handler, modeRest>>

\* generate_config ends the callback (0, or 1 on RuntimeError); otherwise
\* run(mode=...) stages the tracked files when asked and takes the branch
\* of the mode
MD_Dispatch ==
    /\ m_pc = "dispatch"
    /\ IF m_flags.generate_config
       THEN /\ m_pc' = "exited"
            /\ \E code \in {0, 1} : m_exit' = code
            /\ m_handler' = "generate_config_here"
       ELSE /\ m_pc' = "ran"
            /\ m_exit' = m_exit
            /\ m_handler' =
                 CASE m_mode = "LIST" -> "list"
                   [] m_mode = "SQUASH" -> "squash_branch"
                   [] m_mode = "UPDATE" -> "check_and_update"
                   [] OTHER -> "commit"
    /\ UNCHANGED <<m_flags, m_mode, modeRest>>

InitModes ==
    /\ FlowIdle
    /\ GenIdle
    /\ LlmIdle
    /\ ValIdle
    /\ CfgIdle
    /\ PromptIdle
    /\ m_flags \in CliFlags
    /\ m_pc = "callback"
    /\ m_mode = NoMode
    /\ m_exit = NoExit
    /\ m_handler = "none"

NextModes ==
    \/ MD_Eager
    \/ MD_Resolve
    \/ MD_Validate
    \/ MD_Dispatch

SpecModes == InitModes /\ [][NextModes]_vars

\* ---------------------------------------------------- properties of modes
ModeFlagsSet == sum_flags(m_flags.list_flag, m_flags.squash, m_flags.update)

\* resolve_mode has been called in this run
Resolved == m_pc \in {"validate", "dispatch", "ran"} \/ m_mode # NoMode

\* C23: resolve_mode returns COMMIT when none of list, squash and update is
\* set and LIST, SQUASH or UPDATE when exactly that one is set; with more
\* than one set it exits with code 1 and returns no mode; validate_options
\* exits with code 1 whenever --all comes with a mode other than COMMIT.
C23_OneModeOrExit ==
    /\ \A l \in BOOLEAN, s \in BOOLEAN, u \in BOOLEAN :
          LET r == resolve_mode(l, s, u) IN
          /\ (r.exit = NoExit) = (sum_flags(l, s, u) <= 1)
          /\ r.exit # NoExit => r.exit = 1 /\ r.mode = NoMode
          /\ r.exit = NoExit =>
                /\ r.mode \in Modes
                /\ (r.mode = "COMMIT") = (~l /\ ~s /\ ~u)
                /\ (r.mode = "LIST") = l
                /\ (r.mode = "SQUASH") = s
                /\ (r.mode = "UPDATE") = u
    /\ \A mode \in Modes \ {"COMMIT"}, d \in BOOLEAN, h \in BOOLEAN,
          v \in BOOLEAN : validate_options(mode, TRUE, d, h, v) = 1
    /\ Resolved =>
          /\ ModeFlagsSet <= 1
          /\ (m_mode = "COMMIT") = (ModeFlagsSet = 0)
          /\ (m_mode = "LIST") = m_flags.list_flag
          /\ (m_mode = "SQUASH") = m_flags.squash
          /\ (m_mode = "UPDATE") = m_flags.update
    /\ (m_pc = "exited" /\ ModeFlagsSet > 1
        /\ ~m_flags.help_flag /\ ~m_flags.version) =>
          m_exit = 1 /\ m_mode = NoMode /\ m_handler = "none"
    /\ (m_pc \in {"exited", "ran"} /\ m_mode \in Modes \ {"COMMIT"}
        /\ m_flags.stage_tracked) =>
          m_pc = "exited" /\ m_exit = 1 /\ m_handler = "none"

\* --squash with --all: the mode was SQUASH and the callback exited with 1
C23_Witness ==
    /\ m_pc = "exited"
    /\ m_flags.squash /\ m_flags.stage_tracked
    /\ ~m_flags.list_flag /\ ~m_flags.update
    /\ m_mode = "SQUASH"
    /\ m_exit = 1

\* ------------------------------------------------- the base of the squash
\* _get_branch_base has run in this squash
BaseLookedUp == base_lookup # NoLookup

\* both `git symbolic-ref` and `git merge-base --fork-point` succeeded
ForkPointFound == base_lookup.originHead /\ base_lookup.forkPoint > 0

\* C22: _get_branch_base returns the fork point with the default remote
\* branch when the default-branch lookup and the fork-point computation
\* both succeed, the root commit when either fails, and raises only when
\* the root-commit lookup fails as well; squash_branch then starts no reset
\* and no commit.
C22_BaseIsForkPointElseRoot ==
    /\ \A o \in BOOLEAN, f \in 0..MaxCommits, h \in Histories :
          LET b == _get_branch_base(o, f, h) IN
          /\ (o /\ f > 0) => b = [ok |-> TRUE, base |-> f]
          /\ (~(o /\ f > 0) /\ h # <<>>) => b = [ok |-> TRUE, base |-> 1]
          /\ ~b.ok <=> (~(o /\ f > 0) /\ h = <<>>)
    /\ (BaseLookedUp /\ ForkPointFound) =>
          merge_base = base_lookup.forkPoint /\ pc # "sq_base"
    /\ (BaseLookedUp /\ ~ForkPointFound /\ merge_base # -1) =>
          merge_base = 1
    /\ (BaseLookedUp /\ merge_base = -1) =>
          /\ ~ForkPointFound
          /\ commits = <<>>
          /\ pc = "raised"
          /\ ResetRuns = 0
          /\ CommitMRuns = 0

\* origin/HEAD is known but no fork point is found on a branch of two
\* commits: the base is the root commit
C22_Witness ==
    /\ pc = "sq_log"
    /\ base_lookup = [originHead |-> TRUE, forkPoint |-> 0]
    /\ Len(commits) = 2
    /\ merge_base = 1

\* ------------------------------------------------- after the squash commit
\* what the user would type at a confirmation prompt
Answers == {"yes", "no"}

\* the squash commit was created and squash_branch has returned
SquashSucceeded == pc = "done" /\ Happened("commit_m")

\* C24: after a successful squash of a branch with an upstream, a user who
\* answers yes gets `git push --force-with-lease` run by squash_branch.
C24_YesForcePushes ==
    \A answer \in Answers :
        (SquashSucceeded /\ upstream /\ answer = "yes") => Happened("push")

\* ---------------------------------------------- the two review protocols
\* commit_with_edit_template reaches `git commit` on this editor command
\* line, editor status and pair of hashes
CommitProtocolProceeds(editor, code, before, after) ==
    LET sp == shlex_split(editor) IN
    /\ sp.ok
    /\ sp.parts # <<>>
    /\ which(sp.parts[1])
    /\ code = 0
    /\ file_changed(before, after)

\* the review of the squash went on to the destructive step
ReviewProceeded == pc \in {"sq_reset", "sq_commit", "sq_upstream"} \/ ResetRuns > 0

\* the review of the squash has come to its decision
ReviewDecided == Happened("review_editor") /\ pc # "sq_rehash"

\* C25: the review step of the squash decides like commit_with_edit_template:
\* it goes on to the reset exactly when, for the same editor command line,
\* editor status and file change, commit_with_edit_template would reach
\* `git commit`; an editor whose executable is not found stops the squash.
C25_ReviewDecidesLikeCommitProtocol ==
    /\ ReviewProceeded =>
          CommitProtocolProceeds(gitEditor, sq_rc, sq_original_hash,
                                 sq_new_hash)
    /\ (ReviewDecided /\ pc # "raised"
        /\ CommitProtocolProceeds(gitEditor, sq_rc, sq_original_hash,
                                  sq_new_hash)) => ReviewProceeded

\* ------------------------------------------------ the review file's end
\* squash_branch has ended, by a return or by an exception
SquashEnded == entry = "squash" /\ pc \in {"done", "raised"}

\* C26: once the review temp file was created, it is gone when squash_branch
\* ends, whether it returns (editor non-zero, same hash, message saved) or
\* an exception propagates.
C26_ReviewFileRemoved ==
    SquashEnded => ~rv.exists

\* -------------------------------------------------- HTTP error responses
\* the function the running instance dispatches to
ProviderFn == dispatch_target(default_model)

\* errors of a provider function that carry the response's status: the
\* HTTPError of raise_for_status, the SDK's APIStatusError, and the
\* ValueError generate_ollama builds from response.status_code
StatusKept(fn, err) ==
    CASE fn = "generate_ollama" -> err = "ValueError"
      [] fn \in {"generate_openai", "generate_deepseek"} ->
            err = "APIStatusError"
      [] OTHER -> err = "HTTPError"

\* C27: whatever the provider, a call whose request was answered with an
\* HTTP error status ends in an error that carries that status: it returns
\* no reply and does not end in an unrelated parsing error.
C27_HttpErrorKeepsStatus ==
    (llm_pc = "idle" /\ response = "status_error") =>
        /\ events # <<>>
        /\ events[Len(events)].kind = "raise"
        /\ StatusKept(ProviderFn, events[Len(events)].what)

\* ------------------------------------------------------- the escalation
\* positions of the signals of this name
SignalsOf(name) == {i \in EventsOf("signal") : events[i].what = name}

\* C28: when a spawned server is stopped, SIGKILL is sent only right after
\* a SIGTERM of the same teardown and only to a process that was still
\* running when the wait after SIGTERM ended; it is never the first signal
\* and never goes to a process that has exited.
C28_KillOnlyAfterTermAndWait ==
    \A i \in SignalsOf("SIGKILL") :
        /\ i > 1
        /\ i - 1 \in SignalsOf("SIGTERM")
        /\ events[i].proc \in Alive
        /\ events[i - 1].proc \in Alive
        /\ Spawned

\* a process that outlived the wait was sent SIGTERM and then SIGKILL
C28_Witness ==
    /\ llm_pc = "idle"
    /\ _ollama_proc = "exited"
    /\ Len(events) >= 2
    /\ events[Len(events) - 1].kind = "signal"
    /\ events[Len(events) - 1].what = "SIGTERM"
    /\ events[Len(events)].kind = "signal"
    /\ events[Len(events)].what = "SIGKILL"
    /\ Cardinality(SignalsOf("SIGKILL")) = 1

\* ------------------------------------------------- closing the generator
\* the generator of this run was asked for a message or a summary
Generated == Happened("generate") \/ Happened("summarize")

\* C29: a workflow that made its CommitMessageGenerator generate has called
\* close() on it by the time it ends, on every exit path, so that a server
\* the generator spawned is stopped before the invocation is over.
C29_GeneratorClosedAtEnd ==
    (SquashEnded /\ Generated) => Happened("close")

\* ------------------------------------------- staged changes come first
\* positions of this effect in the trace
TraceAt(e) == {i \in DOMAIN trace : trace[i] = e}

\* the log read is still the log of HEAD (no reset has run yet)
LogInHand == pc \in {"sq_summarize", "sq_write", "sq_editor", "sq_rehash",
                     "sq_reset"}

\* C30: a squash that found staged changes commits them through the commit
\* protocol before the base is determined and the log is read: the base is
\* looked up only after that commit succeeded, the log that is summarized
\* is the log of a history that ends with that commit, and every call of
\* the summarizer comes after the commit.
C30_StagedCommitBeforeBase ==
    /\ (staged_out /\ BaseLookedUp) =>
          /\ Count(trace, "commit_F") = 1
          /\ result = 0
    /\ staged_out =>
          \A j \in TraceAt("summarize") :
              \E i \in TraceAt("commit_F") : i < j
    /\ (staged_out /\ LogInHand) =>
          /\ merge_base < Len(commits)
          /\ commits[Len(commits)] = git_read.file.content
          /\ commit_log = git_log(commits, merge_base)

\* the staged changes were committed on top of one commit, the root commit
\* is the base and the summarizer is about to get the log of that commit
C30_Witness ==
    /\ staged_out
    /\ pc = "sq_summarize"
    /\ Happened("commit_F")
    /\ Len(commits) = 2
    /\ merge_base = 1
    /\ commit_log = Strip(git_read.file.content)
    /\ commit_log # <<>>

====
